---- MODULE Spec2Model ----
(***************************************************************************)
(* Camera-motion video engine of AETHER-OS (src/src/tools/video_gen/       *)
(* server.py): the /generate handler, generate_frame, ease_in_out and the  *)
(* preset catalog.                                                         *)
(*                                                                         *)
(* Numbers.  Python computes with floats; the model computes with exact    *)
(* rationals.  Motion parameters (scales, focal points) are integers in    *)
(* hundredths (Unit), duration and fps are integers in 1/Den units, and    *)
(* the eased progress t is the pair <<tn, td>>.  int() is truncation       *)
(* toward zero (TruncDiv).                                                 *)
(***************************************************************************)
EXTENDS Integers, Sequences, FiniteSets, TLC

\* ---------------------------------------------------------------- bounds
\* resolution of the duration and fps inputs: values are multiples of 1/Den
Den == 2
\* largest raw image side, in pixels
MaxSide == 3
\* requests whose frame count exceeds MaxFrames are not explored
MaxFrames == 120

\* no request is started once MaxTemps temporary files have been created
MaxTemps == 2

\* ease_in_out is sampled at the points k / (SamplePoints - 1) and k / SamplePoints
SamplePoints == 50

\* fixed-point unit of the motion parameters (two decimals, as in the catalog)
Unit == 100

\* ---------------------------------------------------------------- arithmetic
Abs(n) == IF n < 0 THEN -n ELSE n

Min(a, b) == IF a < b THEN a ELSE b

Max(a, b) == IF a > b THEN a ELSE b

\* Python int(n / d) for d # 0: truncation toward zero
TruncDiv(n, d) ==
    IF (n >= 0) = (d > 0)
    THEN Abs(n) \div Abs(d)
    ELSE -(Abs(n) \div Abs(d))

\* Python round(n / d) for n >= 0, d > 0: nearest integer, ties to even
RoundDiv(n, d) ==
    LET q == n \div d
        r == n % d
    IN  IF 2 * r < d THEN q
        ELSE IF 2 * r > d THEN q + 1
        ELSE IF q % 2 = 0 THEN q ELSE q + 1

\* a JSON value that is no number (a string, null): arithmetic on it raises
\* TypeError
NonNumber == -1000000

\* dict.get(k, default)
Get(d, k, default) == IF k \in DOMAIN d THEN d[k] ELSE default

\* ---------------------------------------------------------------- catalog
MotionSpec(ss, es, sx, ex, sy, ey) ==
    [start_scale |-> ss, end_scale |-> es,
     start_x |-> sx, end_x |-> ex, start_y |-> sy, end_y |-> ey]

\* mutant: dramatic_zoom ends at 3x
PresetTableDeepZoom ==
    [zoom_in       |-> MotionSpec(100, 130, 50, 50, 50, 50),
     zoom_out      |-> MotionSpec(130, 100, 50, 50, 50, 50),
     pan_left      |-> MotionSpec(120, 120, 70, 30, 50, 50),
     pan_right     |-> MotionSpec(120, 120, 30, 70, 50, 50),
     pan_up        |-> MotionSpec(120, 120, 50, 50, 70, 30),
     pan_down      |-> MotionSpec(120, 120, 50, 50, 30, 70),
     zoom_pan_tl   |-> MotionSpec(100, 140, 50, 30, 50, 30),
     zoom_pan_tr   |-> MotionSpec(100, 140, 50, 70, 50, 30),
     zoom_pan_bl   |-> MotionSpec(100, 140, 50, 30, 50, 70),
     zoom_pan_br   |-> MotionSpec(100, 140, 50, 70, 50, 70),
     dramatic_zoom |-> MotionSpec(100, 300, 50, 50, 50, 50),
     slow_drift    |-> MotionSpec(110, 115, 45, 55, 48, 52)]

PresetTable ==
    [zoom_in       |-> MotionSpec(100, 130, 50, 50, 50, 50),
     zoom_out      |-> MotionSpec(130, 100, 50, 50, 50, 50),
     pan_left      |-> MotionSpec(120, 120, 70, 30, 50, 50),
     pan_right     |-> MotionSpec(120, 120, 30, 70, 50, 50),
     pan_up        |-> MotionSpec(120, 120, 50, 50, 70, 30),
     pan_down      |-> MotionSpec(120, 120, 50, 50, 30, 70),
     zoom_pan_tl   |-> MotionSpec(100, 140, 50, 30, 50, 30),
     zoom_pan_tr   |-> MotionSpec(100, 140, 50, 70, 50, 30),
     zoom_pan_bl   |-> MotionSpec(100, 140, 50, 30, 50, 70),
     zoom_pan_br   |-> MotionSpec(100, 140, 50, 70, 50, 70),
     dramatic_zoom |-> MotionSpec(100, 200, 50, 50, 50, 50),
     slow_drift    |-> MotionSpec(110, 115, 45, 55, 48, 52)]

\* ---------------------------------------------------------------- easing
\* mutant: the easing is the quadratic t * t
EaseQuadratic(n, d) == << n * n * d, d * d * d >>

\* mutant: the cubic is t * t * (2 - t)
EaseWrongCoefficients(n, d) == << n * n * (2 * d - n), d * d * d >>

\* t * t * (3 - 2 * t) at t = n / d, as the fraction <<num, den>>
ease_in_out(n, d) == << n * n * (3 * d - 2 * n), d * d * d >>

\* mutant: progress counts frames from 1
ProgressOneBased(frame_idx, total_frames) ==
    << frame_idx + 1, Max(total_frames - 1, 1) >>

\* mutant: progress divides by total_frames instead of total_frames - 1
ProgressOverCount(frame_idx, total_frames) == << frame_idx, Max(total_frames, 1) >>

\* frame_idx / max(total_frames - 1, 1), as <<numerator, denominator>>
Progress(frame_idx, total_frames) == << frame_idx, Max(total_frames - 1, 1) >>

\* mutant: start and end are exchanged
InterpolateSwapped(start, end, t) == end * t[2] + (start - end) * t[1]

\* start + (end - start) * t, in hundredths, as a numerator over t[2]
Interpolate(start, end, t) == start * t[2] + (end - start) * t[1]

\* ---------------------------------------------------------------- frames
\* int((w - crop_w) * cx), cx a numerator over den
UnclampedOrigin(w, crop_w, cx, den) == TruncDiv((w - crop_w) * cx, den)

\* mutant: the upper bound of the clamp is one pixel short
ClampOriginInner(x1, w, crop_w) == Max(0, Min(x1, w - crop_w - 1))

\* mutant: only the lower bound is enforced
ClampOriginLowOnly(x1, w, crop_w) == Max(0, x1)

\* max(0, min(x1, w - crop_w))
ClampOrigin(x1, w, crop_w) == Max(0, Min(x1, w - crop_w))

\* numpy a[x1:x2] on an axis of length n: negative bounds count from the end,
\* both are clipped to the axis, and the result has this many elements
SliceLen(x1, x2, n) ==
    LET norm(x) == IF x < 0 THEN Max(x + n, 0) ELSE Min(x, n)
    IN  Max(norm(x2) - norm(x1), 0)

\* mutant: the cropped window is returned without resampling
ResizeSkipped(cropped, size) == cropped

\* pil_img.resize((w, h), LANCZOS): the size of the result
Resize(cropped, size) == size

\* the locals of one generate_frame call on an img_array of w x h pixels, for
\* a scale other than 0: t, scale, cx, cy are numerators (scale, cx, cy in
\* hundredths) over the denominator t[2]; cropped is the size of
\* img_array[y1:y2, x1:x2] and size the size of the frame returned
generate_frame(w, h, frame_idx, total_frames, m) ==
    LET p      == Progress(frame_idx, total_frames)
        t      == ease_in_out(p[1], p[2])
        scale  == Interpolate(m.start_scale, m.end_scale, t)
        cx     == Interpolate(m.start_x, m.end_x, t)
        cy     == Interpolate(m.start_y, m.end_y, t)
        den    == Unit * t[2]
        crop_w == TruncDiv(w * den, scale)
        crop_h == TruncDiv(h * den, scale)
        x1     == ClampOrigin(UnclampedOrigin(w, crop_w, cx, den), w, crop_w)
        y1     == ClampOrigin(UnclampedOrigin(h, crop_h, cy, den), h, crop_h)
        x2     == x1 + crop_w
        y2     == y1 + crop_h
        cropped == << SliceLen(x1, x2, w), SliceLen(y1, y2, h) >>
    IN  [frame_idx |-> frame_idx, t |-> t, scale |-> scale, cx |-> cx, cy |-> cy,
         crop_w |-> crop_w, crop_h |-> crop_h,
         x1 |-> x1, y1 |-> y1, x2 |-> x2, y2 |-> y2,
         cropped |-> cropped, size |-> Resize(cropped, <<w, h>>)]

\* ---------------------------------------------------------------- files
\* mutant: one fixed output name per format
TempPathFixed(id, fmt) == [id |-> 1, ext |-> fmt]

\* tempfile.NamedTemporaryFile(suffix='.' + fmt, delete=False): a fresh name
TempPath(id, fmt) == [id |-> id, ext |-> fmt]

\* mutant: the fallback keeps the .mp4 path
ReplaceExtKept(path) == path

\* output_path.replace('.mp4', '.gif')
ReplaceExt(path) == IF path.ext = "mp4" THEN [path EXCEPT !.ext = "gif"] ELSE path

\* the encoder PIL's Image.save selects from the file extension
PILFormat(ext) ==
    IF ext = "gif" THEN "gif"
    ELSE IF ext = "png" THEN "png"
    ELSE "unknown"

\* mutant: the delay is rounded up
GifDelayCeil(f) == TruncDiv(1000 * Den + f - 1, f)

\* int(1000 / fps), fps in 1/Den units
GifDelay(f) == TruncDiv(1000 * Den, f)

\* mutant: the frame count is rounded up
FrameCountCeil(d, f) == TruncDiv(d * f + Den * Den - 1, Den * Den)

\* int(duration * fps), both in 1/Den units
FrameCount(d, f) == TruncDiv(d * f, Den * Den)

\* mutant: duration and fps are used as sent
ClampNone(x, lo, hi) == x

\* mutant: only the upper bound is enforced
ClampHighOnly(x, lo, hi) == Min(x, hi * Den)

\* mutant: only the lower bound is enforced
ClampLowOnly(x, lo, hi) == Max(x, lo * Den)

\* min(max(x, lo), hi) with lo, hi in whole units
Clamp(x, lo, hi) == Min(Max(x, lo * Den), hi * Den)

\* ---------------------------------------------------------------- constants
MinDuration == 1
MaxDuration == 10
MinFps == 12
MaxFps == 60
DefaultDuration == 3
DefaultFps == 24

\* ---------------------------------------------------------------- inputs
\* a request body is a dict: a function from the keys it carries
Restrict(d, keys) == [k \in DOMAIN d \cap keys |-> d[k]]

EmptyDict == [k \in {} |-> 0]

\* the image field: "" (kind empty), bytes no codec decodes (kind bad), or a
\* decodable picture of w x h pixels
NoImage == [kind |-> "empty", w |-> 0, h |-> 0]

BadImage == [kind |-> "bad", w |-> 0, h |-> 0]

Picture(w, h) == [kind |-> "img", w |-> w, h |-> h]

Images == {NoImage, BadImage} \cup {Picture(w, h) : w, h \in 1..MaxSide}

PresetNames == DOMAIN PresetTable \cup {"bogus"}

\* raw durations and fps, in 1/Den units: below, at, inside and above the range
Durations == {0, MinDuration * Den, MinDuration * Den + 1,
              MaxDuration * Den, MaxDuration * Den + 1}

FpsValues == {MinFps * Den - 1, MinFps * Den, MinFps * Den + 1,
              (MinFps + 1) * Den, MaxFps * Den, MaxFps * Den + 1}

Formats == {"gif", "mp4", "png", "avi"}

\* custom motion objects, values in hundredths
CustomMotions ==
    { MotionSpec(100, 100, 20, 80, 50, 50),
      MotionSpec(150, 150, -50, 150, 0, 100),
      [end_scale |-> 500],
      [start_scale |-> 50, end_x |-> 100],
      [start_scale |-> 0, end_scale |-> 0] }

Body(im, p, d, f, fmt, m) ==
    [image |-> im, preset |-> p, duration |-> d, fps |-> f, format |-> fmt,
     motion |-> m]

\* every image under every preset name and every custom motion, short videos
GeometryRequests ==
    { Body(im, p, MinDuration * Den, f, "gif", EmptyDict) :
        im \in Images, p \in PresetNames, f \in {MinFps * Den, (MinFps + 1) * Den} }
    \cup
    { Body(im, "pan_left", MinDuration * Den, f, "gif", m) :
        im \in Images, m \in CustomMotions, f \in {MinFps * Den, (MinFps + 1) * Den} }

\* every duration and fps
TimingRequests ==
    { Body(Picture(MaxSide, 2), p, d, f, fmt, EmptyDict) :
        p \in {"zoom_in", "slow_drift"}, d \in Durations, f \in FpsValues,
        fmt \in {"gif", "mp4"} }

\* every format, on images that decode and on one that does not
FormatRequests ==
    { Body(im, p, MinDuration * Den, f, fmt, m) :
        im \in {BadImage, Picture(2, 2), Picture(1, MaxSide)},
        p \in {"dramatic_zoom", "bogus"},
        f \in {MinFps * Den, (MinFps + 1) * Den, MaxFps * Den},
        fmt \in Formats,
        m \in {EmptyDict, [end_scale |-> 500], [start_scale |-> 0, end_scale |-> 0]} }

\* the two scenarios of the specification's section 8
ZoomScenario == Body(Picture(512, 512), "zoom_in", 2 * Den, 10 * Den, "gif", EmptyDict)

PanScenario ==
    Body(Picture(512, 512), "zoom_in", 1 * Den, 1 * Den, "gif",
         MotionSpec(100, 100, 20, 80, 50, 50))

ScenarioRequests == {ZoomScenario, PanScenario}

\* motion objects with a field that is no number
MalformedRequests ==
    { Body(Picture(2, 2), "zoom_in", MinDuration * Den, MinFps * Den, fmt, m) :
        fmt \in {"gif", "mp4"},
        m \in { [start_scale |-> NonNumber],
                [end_y |-> NonNumber],
                MotionSpec(100, NonNumber, 50, 50, 50, 50) } }

\* requests that leave keys out
SparseRequests ==
    { Restrict(Body(Picture(2, 3), "zoom_out", 2 * Den, 15 * Den, "mp4",
                    [end_scale |-> 150]), keys) :
        keys \in SUBSET {"image", "preset", "duration", "fps", "format", "motion"} }

Requests == GeometryRequests \cup TimingRequests \cup FormatRequests
            \cup SparseRequests \cup ScenarioRequests \cup MalformedRequests

\* what the MP4 branch can meet: imageio writes the file, imageio is not
\* installed (ImportError), or the writer raises another exception
WriterOutcomes == {"ok", "ImportError", "error"}

\* ---------------------------------------------------------------- state
VARIABLES
    pc,             \* position of the handler: idle, generating, encoding,
                    \* reading, done
    data,           \* request.json
    preset, duration, fps, output_format, motion,
    shape,          \* <<w, h>> of img_array
    total_frames,
    frames,         \* the list of generated frames
    loc,            \* locals of the latest generate_frame call
    output_path,
    disk,           \* the files in the temp directory: path -> content
    nextTmp,        \* names handed out by tempfile so far
    response,
    MOTION_PRESETS,
    other,          \* the request-local variables of the thread not running
    cur,            \* the thread whose request-local variables are above
    call,           \* arguments of a direct call of a pure function
    ret             \* what that call returned, <<>> before it ran

vars == << pc, data, preset, duration, fps, output_format, motion, shape,
           total_frames, frames, loc, output_path, disk, nextTmp, response,
           MOTION_PRESETS, other, cur, call, ret >>

\* the variables the /generate handler does not touch
aux == << other, cur, call, ret >>

NoResponse == [status |-> 0]

NoPath == [id |-> 0, ext |-> ""]

NoLocals == [frame_idx |-> 0, t |-> <<0, 1>>, scale |-> 0, cx |-> 0, cy |-> 0,
             crop_w |-> 0, crop_h |-> 0, x1 |-> 0, y1 |-> 0, x2 |-> 0, y2 |-> 0,
             cropped |-> <<0, 0>>, size |-> <<0, 0>>]

\* the request-local variables of a handler that has not started
IdleLocals ==
    [pc |-> "idle", data |-> EmptyDict, preset |-> "", duration |-> 0,
     fps |-> 0, output_format |-> "", motion |-> EmptyDict, shape |-> <<0, 0>>,
     total_frames |-> 0, frames |-> <<>>, loc |-> NoLocals,
     output_path |-> NoPath, response |-> NoResponse]

\* the request-local variables of the running thread, as one record
Locals ==
    [pc |-> pc, data |-> data, preset |-> preset, duration |-> duration,
     fps |-> fps, output_format |-> output_format, motion |-> motion,
     shape |-> shape, total_frames |-> total_frames, frames |-> frames,
     loc |-> loc, output_path |-> output_path, response |-> response]

Start ==
    /\ pc = "idle"
    /\ data = EmptyDict
    /\ preset = ""
    /\ duration = 0
    /\ fps = 0
    /\ output_format = ""
    /\ motion = EmptyDict
    /\ shape = <<0, 0>>
    /\ total_frames = 0
    /\ frames = <<>>
    /\ loc = NoLocals
    /\ output_path = NoPath
    /\ disk = EmptyDict
    /\ nextTmp = 0
    /\ response = NoResponse
    /\ MOTION_PRESETS = PresetTable
    /\ other = IdleLocals
    /\ cur = 1
    /\ ret = <<>>

Init == Start /\ call = <<>>

\* ---------------------------------------------------------------- file contents
\* the empty file NamedTemporaryFile leaves behind
EmptyFile ==
    [encoder |-> "none", container |-> "", frames |-> <<>>,
     duration |-> 0, loop |-> 0, optimize |-> FALSE, fps |-> 0]

\* mutant: append_images is the whole list, so frame 0 is written twice
AppendImagesAll(fs) == fs

\* frames[1:]
AppendImages(fs) == Tail(fs)

\* frames[0].save(path, save_all=True, append_images=frames[1:], duration=..,
\* loop=0, optimize=..): the file PIL writes, in the format of the extension
PILSave(path, fs, delay, opt) ==
    [encoder |-> "PIL", container |-> PILFormat(path.ext), frames |-> fs,
     duration |-> delay, loop |-> 0, optimize |-> opt, fps |-> 0]

\* imageio.get_writer(path, fps=fps, codec='libx264') fed every frame in turn:
\* the writer picks the container from the extension
WriterSave(path, fs, f) ==
    [encoder |-> "imageio", container |-> path.ext, frames |-> fs,
     duration |-> 0, loop |-> 0, optimize |-> FALSE, fps |-> f]

\* open(path, 'w'): create or overwrite
WriteFile(d, path, content) ==
    [q \in DOMAIN d \cup {path} |-> IF q = path THEN content ELSE d[q]]

\* os.unlink(path)
Unlink(d, path) == [q \in DOMAIN d \ {path} |-> d[q]]

\* ---------------------------------------------------------------- responses
\* mutant: the error response also reports a format
ErrorResponseWithFormat(code, msg) ==
    [status |-> code, error |-> msg, format |-> "gif"]

ErrorResponse(code, msg) == [status |-> code, error |-> msg]

\* mutant: the response names the preset whose motion was applied by default
SuccessResponseZoomIn(video, fmt, d, f, n, p) ==
    [status |-> 200, success |-> TRUE, video |-> video, format |-> fmt,
     duration |-> d, fps |-> f, frames |-> n, preset |-> "zoom_in"]

SuccessResponse(video, fmt, d, f, n, p) ==
    [status |-> 200, success |-> TRUE, video |-> video, format |-> fmt,
     duration |-> d, fps |-> f, frames |-> n, preset |-> p]

\* ---------------------------------------------------------------- request parsing
\* mutant: a missing end_scale defaults to 1.0
CustomMotionFlatDefaults(custom_motion) ==
    [start_scale |-> Get(custom_motion, "start_scale", 100),
     end_scale   |-> Get(custom_motion, "end_scale", 100),
     start_x     |-> Get(custom_motion, "start_x", 50),
     end_x       |-> Get(custom_motion, "end_x", 50),
     start_y     |-> Get(custom_motion, "start_y", 50),
     end_y       |-> Get(custom_motion, "end_y", 50)]

\* the motion dict built from a custom motion object
CustomMotion(custom_motion) ==
    [start_scale |-> Get(custom_motion, "start_scale", 100),
     end_scale   |-> Get(custom_motion, "end_scale", 130),
     start_x     |-> Get(custom_motion, "start_x", 50),
     end_x       |-> Get(custom_motion, "end_x", 50),
     start_y     |-> Get(custom_motion, "start_y", 50),
     end_y       |-> Get(custom_motion, "end_y", 50)]

\* mutant: unknown names fall back to zoom_out
SelectMotionOtherDefault(d, catalog) ==
    LET custom_motion == Get(d, "motion", EmptyDict)
    IN  IF DOMAIN custom_motion # {}
        THEN CustomMotion(custom_motion)
        ELSE Get(catalog, Get(d, "preset", "zoom_in"), catalog["zoom_out"])

\* custom motion overrides the preset; unknown names fall back to zoom_in
SelectMotion(d, catalog) ==
    LET custom_motion == Get(d, "motion", EmptyDict)
    IN  IF DOMAIN custom_motion # {}
        THEN CustomMotion(custom_motion)
        ELSE Get(catalog, Get(d, "preset", "zoom_in"), catalog["zoom_in"])

\* mutant: the custom motion is built by updating the zoom_in entry in place
CatalogAfterInPlace(d, catalog) ==
    LET custom_motion == Get(d, "motion", EmptyDict)
    IN  IF DOMAIN custom_motion # {}
        THEN [catalog EXCEPT !["zoom_in"] = CustomMotion(custom_motion)]
        ELSE catalog

\* the catalog after lines 128-140: the lookup only reads it, and the custom
\* motion is a new dict
CatalogAfter(d, catalog) == catalog

\* (side // 2) * 2
EvenSide(side) == (side \div 2) * 2

\* the except clause of generate: the handler answers 500 and returns
Fail(msg) ==
    /\ response' = ErrorResponse(500, msg)
    /\ pc' = "done"

\* lines 114-161: parse the request, pick the motion, decode and even the image
Receive(d) ==
    /\ pc = "idle"
    /\ FrameCount(Clamp(Get(d, "duration", DefaultDuration * Den), MinDuration, MaxDuration),
                  Clamp(Get(d, "fps", DefaultFps * Den), MinFps, MaxFps)) <= MaxFrames
    /\ data' = d
    /\ LET image_b64 == Get(d, "image", NoImage)
       IN  IF image_b64.kind = "empty"
           THEN /\ response' = ErrorResponse(400, "No image provided")
                /\ pc' = "done"
                /\ UNCHANGED << preset, duration, fps, output_format, motion,
                                shape, total_frames, MOTION_PRESETS >>
           ELSE /\ preset' = Get(d, "preset", "zoom_in")
                /\ duration' = Clamp(Get(d, "duration", DefaultDuration * Den),
                                     MinDuration, MaxDuration)
                /\ fps' = Clamp(Get(d, "fps", DefaultFps * Den), MinFps, MaxFps)
                /\ output_format' = Get(d, "format", "gif")
                /\ motion' = SelectMotion(d, MOTION_PRESETS)
                /\ MOTION_PRESETS' = CatalogAfter(d, MOTION_PRESETS)
                /\ IF image_b64.kind = "bad"
                   THEN /\ Fail("cannot identify image file")
                        /\ UNCHANGED << shape, total_frames >>
                   ELSE LET target_w == EvenSide(image_b64.w)
                            target_h == EvenSide(image_b64.h)
                        IN  IF target_w < 1 \/ target_h < 1
                            THEN /\ Fail("height and width must be > 0")
                                 /\ UNCHANGED << shape, total_frames >>
                            ELSE /\ shape' = <<target_w, target_h>>
                                 /\ total_frames' = FrameCount(duration', fps')
                                 /\ pc' = "generating"
                                 /\ response' = NoResponse
    /\ UNCHANGED << frames, loc, output_path, disk, nextTmp >>
    /\ UNCHANGED aux

\* what Image.fromarray and resize do with a crop of no pixels depends on the
\* Pillow release: a ValueError, or a frame resampled from nothing
EmptyCropOutcomes == {"raise", "frame"}

\* lines 165-167: one iteration of the frame loop
GenerateFrame(onEmpty) ==
    /\ pc = "generating"
    /\ Len(frames) < total_frames
    /\ LET i     == Len(frames)
           scale == Interpolate(motion.start_scale, motion.end_scale,
                                ease_in_out(i, Max(total_frames - 1, 1)))
       IN  IF \E k \in DOMAIN motion : motion[k] = NonNumber
           THEN /\ Fail("unsupported operand type(s)")
                /\ UNCHANGED << frames, loc >>
           ELSE IF scale = 0
           THEN /\ Fail("float division by zero")
                /\ UNCHANGED << frames, loc >>
           ELSE LET l == generate_frame(shape[1], shape[2], i, total_frames, motion)
                IN  /\ loc' = l
                    /\ IF (l.cropped[1] = 0 \/ l.cropped[2] = 0) /\ onEmpty = "raise"
                       THEN /\ Fail("tile cannot extend outside image")
                            /\ UNCHANGED frames
                       ELSE /\ frames' = Append(frames,
                                   [idx |-> i, size |-> l.size,
                                    crop |-> <<l.x1, l.y1, l.x2, l.y2>>])
                            /\ UNCHANGED << pc, response >>
    /\ UNCHANGED << data, preset, duration, fps, output_format, motion, shape,
                    total_frames, output_path, disk, nextTmp, MOTION_PRESETS >>
    /\ UNCHANGED aux

\* mutant: the export starts one frame early
ExportEarly ==
    /\ pc = "generating"
    /\ Len(frames) = total_frames - 1
    /\ nextTmp' = nextTmp + 1
    /\ output_path' = TempPath(nextTmp', output_format)
    /\ disk' = WriteFile(disk, output_path', EmptyFile)
    /\ pc' = "encoding"
    /\ UNCHANGED << data, preset, duration, fps, output_format, motion, shape,
                    total_frames, frames, loc, response, MOTION_PRESETS >>
    /\ UNCHANGED aux

\* lines 170-171: the loop is over; create the temporary output file
Export ==
    /\ pc = "generating"
    /\ Len(frames) = total_frames
    /\ nextTmp' = nextTmp + 1
    /\ output_path' = TempPath(nextTmp', output_format)
    /\ disk' = WriteFile(disk, output_path', EmptyFile)
    /\ pc' = "encoding"
    /\ UNCHANGED << data, preset, duration, fps, output_format, motion, shape,
                    total_frames, frames, loc, response, MOTION_PRESETS >>
    /\ UNCHANGED aux

\* lines 173-182: the GIF branch
EncodeGif ==
    /\ pc = "encoding"
    /\ output_format = "gif"
    /\ IF Len(frames) = 0
       THEN /\ Fail("list index out of range")
            /\ UNCHANGED disk
       ELSE IF PILFormat(output_path.ext) = "unknown"
       THEN /\ Fail("unknown file extension")
            /\ UNCHANGED disk
       ELSE /\ disk' = WriteFile(disk, output_path,
                           PILSave(output_path, <<frames[1]>> \o AppendImages(frames),
                                   GifDelay(fps), TRUE))
            /\ pc' = "reading"
            /\ UNCHANGED response
    /\ UNCHANGED << data, preset, duration, fps, output_format, motion, shape,
                    total_frames, frames, loc, output_path, nextTmp,
                    MOTION_PRESETS >>
    /\ UNCHANGED aux

\* mutant: no except ImportError clause, every failure of the writer is final
EncodeVideoNoFallback(outcome) ==
    /\ pc = "encoding"
    /\ output_format # "gif"
    /\ IF outcome = "ok"
       THEN /\ disk' = WriteFile(disk, output_path,
                           WriterSave(output_path, frames, fps))
            /\ pc' = "reading"
            /\ UNCHANGED response
       ELSE /\ Fail(IF outcome = "ImportError" THEN "No module named imageio"
                                               ELSE "could not write video")
            /\ UNCHANGED disk
    /\ UNCHANGED << data, preset, duration, fps, output_format, motion, shape,
                    total_frames, frames, loc, output_path, nextTmp,
                    MOTION_PRESETS >>
    /\ UNCHANGED aux

\* lines 183-201: the MP4 branch and its fallback to GIF on ImportError
EncodeVideo(outcome) ==
    /\ pc = "encoding"
    /\ output_format # "gif"
    /\ CASE outcome = "ok" ->
              /\ disk' = WriteFile(disk, output_path,
                             WriterSave(output_path, frames, fps))
              /\ pc' = "reading"
              /\ UNCHANGED << output_path, output_format, response >>
         [] outcome = "error" ->
              /\ Fail("could not write video")
              /\ UNCHANGED << output_path, output_format, disk >>
         [] outcome = "ImportError" ->
              /\ output_path' = ReplaceExt(output_path)
              /\ output_format' = "gif"
              /\ IF Len(frames) = 0
                 THEN /\ Fail("list index out of range")
                      /\ UNCHANGED disk
                 ELSE IF PILFormat(output_path'.ext) = "unknown"
                 THEN /\ Fail("unknown file extension")
                      /\ UNCHANGED disk
                 ELSE /\ disk' = WriteFile(disk, output_path',
                                     PILSave(output_path', <<frames[1]>> \o AppendImages(frames),
                                             GifDelay(fps), FALSE))
                      /\ pc' = "reading"
                      /\ UNCHANGED response
    /\ UNCHANGED << data, preset, duration, fps, motion, shape, total_frames,
                    frames, loc, nextTmp, MOTION_PRESETS >>
    /\ UNCHANGED aux

\* lines 203-222: read the file back, unlink it, drop the frames, answer
Finish ==
    /\ pc = "reading"
    /\ IF output_path \notin DOMAIN disk
       THEN /\ Fail("No such file or directory")
            /\ UNCHANGED << disk, frames >>
       ELSE /\ response' = SuccessResponse(disk[output_path], output_format,
                                           duration, fps, total_frames, preset)
            /\ disk' = Unlink(disk, output_path)
            /\ frames' = <<>>
            /\ pc' = "done"
    /\ UNCHANGED << data, preset, duration, fps, output_format, motion, shape,
                    total_frames, loc, output_path, nextTmp, MOTION_PRESETS >>
    /\ UNCHANGED aux

Next ==
    \/ \E d \in Requests : Receive(d)
    \/ \E onEmpty \in EmptyCropOutcomes : GenerateFrame(onEmpty)
    \/ Export
    \/ EncodeGif
    \/ \E outcome \in WriterOutcomes : EncodeVideo(outcome)
    \/ Finish

Spec == Init /\ [][Next]_vars

\* ---------------------------------------------------------------- request sequences
\* the handler has returned and the server takes the next request: the
\* request-local variables are gone, the files and the catalog stay
NextRequest ==
    /\ pc = "done"
    /\ nextTmp < MaxTemps
    /\ pc' = IdleLocals.pc
    /\ data' = IdleLocals.data
    /\ preset' = IdleLocals.preset
    /\ duration' = IdleLocals.duration
    /\ fps' = IdleLocals.fps
    /\ output_format' = IdleLocals.output_format
    /\ motion' = IdleLocals.motion
    /\ shape' = IdleLocals.shape
    /\ total_frames' = IdleLocals.total_frames
    /\ frames' = IdleLocals.frames
    /\ loc' = IdleLocals.loc
    /\ output_path' = IdleLocals.output_path
    /\ response' = IdleLocals.response
    /\ UNCHANGED << disk, nextTmp, MOTION_PRESETS >>
    /\ UNCHANGED aux

SeqRequests ==
    { Body(im, p, MinDuration * Den, MinFps * Den, fmt, m) :
        im \in {NoImage, BadImage, Picture(2, 2)},
        p \in {"zoom_in", "pan_left", "bogus"},
        fmt \in {"gif", "mp4"},
        m \in {EmptyDict, [end_scale |-> 150], [start_scale |-> NonNumber]} }

NextSeq ==
    \/ \E d \in SeqRequests : Receive(d)
    \/ \E onEmpty \in EmptyCropOutcomes : GenerateFrame(onEmpty)
    \/ Export
    \/ EncodeGif
    \/ \E outcome \in WriterOutcomes : EncodeVideo(outcome)
    \/ Finish
    \/ NextRequest

SpecSeq == Init /\ [][NextSeq]_vars

\* ---------------------------------------------------------------- two threads
\* app.run(threaded=True): the scheduler suspends the running handler and
\* resumes the other one; files, temp names and the catalog are shared
Switch ==
    /\ other' = Locals
    /\ pc' = other.pc
    /\ data' = other.data
    /\ preset' = other.preset
    /\ duration' = other.duration
    /\ fps' = other.fps
    /\ output_format' = other.output_format
    /\ motion' = other.motion
    /\ shape' = other.shape
    /\ total_frames' = other.total_frames
    /\ frames' = other.frames
    /\ loc' = other.loc
    /\ output_path' = other.output_path
    /\ response' = other.response
    /\ cur' = 3 - cur
    /\ UNCHANGED << disk, nextTmp, MOTION_PRESETS, call, ret >>

ConcRequests ==
    { Body(Picture(2, 2), p, MinDuration * Den, MinFps * Den, fmt, EmptyDict) :
        p \in {"zoom_in", "pan_left"}, fmt \in {"gif", "mp4"} }
    \cup { Body(BadImage, "zoom_in", MinDuration * Den, MinFps * Den, "gif", EmptyDict) }

NextConc ==
    \/ \E d \in ConcRequests : Receive(d)
    \/ \E onEmpty \in EmptyCropOutcomes : GenerateFrame(onEmpty)
    \/ Export
    \/ EncodeGif
    \/ \E outcome \in WriterOutcomes : EncodeVideo(outcome)
    \/ Finish
    \/ Switch

SpecConc == Init /\ [][NextConc]_vars

\* ---------------------------------------------------------------- direct calls of ease_in_out
\* pairs of sample points n1 / d and n2 / d of [0, 1]
EaseCalls ==
    UNION { { <<n1, n2, d>> : n1, n2 \in 0..d } :
            d \in {1, 2, SamplePoints - 1, SamplePoints} }

InitEase == Start /\ call \in EaseCalls

\* ease_in_out(t) at both sample points
ApplyEase ==
    /\ call # <<>>
    /\ ret = <<>>
    /\ ret' = << ease_in_out(call[1], call[3]), ease_in_out(call[2], call[3]) >>
    /\ UNCHANGED << pc, data, preset, duration, fps, output_format, motion,
                    shape, total_frames, frames, loc, output_path, disk,
                    nextTmp, response, MOTION_PRESETS, other, cur, call >>

NextEase == ApplyEase

SpecEase == InitEase /\ [][NextEase]_vars

\* ---------------------------------------------------------------- direct calls of generate_frame
\* image sides after the even adjustment of lines 152-157
FrameSides == { 2 * k : k \in 1..MaxSide }

\* total_frames values: the single frame, the shortest sequences, and the
\* two shortest the endpoint produces
FrameCounts == {1, 2, 3, MinFps, MinFps + 1}

\* the catalog's MotionSpecs and MotionSpecs a caller can send: large scales
\* with focal points running over all of [0, 1], focal points outside
\* [0, 1], and a scale below 1.0
FrameMotions ==
    { PresetTable[name] : name \in DOMAIN PresetTable }
    \cup { MotionSpec(100, 500, 0, 100, 100, 0),
           MotionSpec(300, 300, 100, 0, 0, 100),
           MotionSpec(150, 150, -50, 150, 0, 100),
           MotionSpec(200, 100, 120, -20, 50, 50),
           MotionSpec(50, 100, 0, 100, 50, 50) }

FrameCalls ==
    { c \in [w : FrameSides, h : FrameSides, frame_idx : 0..MinFps,
             total_frames : FrameCounts, motion : FrameMotions] :
        c.frame_idx < c.total_frames }

InitFrame == Start /\ call \in FrameCalls

\* generate_frame(img_array, frame_idx, total_frames, motion)
ApplyFrame ==
    /\ ret = <<>>
    /\ ret' = << generate_frame(call.w, call.h, call.frame_idx,
                                call.total_frames, call.motion) >>
    /\ UNCHANGED << pc, data, preset, duration, fps, output_format, motion,
                    shape, total_frames, frames, loc, output_path, disk,
                    nextTmp, response, MOTION_PRESETS, other, cur, call >>

NextFrame == ApplyFrame

SpecFrame == InitFrame /\ [][NextFrame]_vars

\* ---------------------------------------------------------------- properties
\* the request carried an image, so the handler went past line 119
Parsed == pc # "idle" /\ Get(data, "image", NoImage).kind # "empty"

\* generate_frame has run at least once
Called == loc # NoLocals

\* the answer is a success response
Succeeded == pc = "done" /\ response.status = 200

\* every file content the request has produced: on disk or in the response
Encoded ==
    { disk[q] : q \in DOMAIN disk } \cup
    (IF Succeeded THEN {response.video} ELSE {})

\* scales of at least 1.0 and focal points within [0, 1]
ValidMotion(m) ==
    /\ m.start_scale >= Unit /\ m.end_scale >= Unit
    /\ \A k \in {"start_x", "end_x", "start_y", "end_y"} : m[k] \in 0..Unit

\* C1: for every frame index and every MotionSpec with scales >= 1.0 and focal
\* points in [0,1], the crop window computed by generate_frame satisfies
\* 0 <= x1 < x2 <= width and 0 <= y1 < y2 <= height, with crop_w, crop_h >= 1.
C1_CropWindowInsideNonEmpty ==
    (Called /\ ValidMotion(motion)) =>
        /\ 0 <= loc.x1 /\ loc.x1 < loc.x2 /\ loc.x2 <= shape[1]
        /\ 0 <= loc.y1 /\ loc.y1 < loc.y2 /\ loc.y2 <= shape[2]
        /\ loc.crop_w >= 1 /\ loc.crop_h >= 1

\* C2: every frame produced for a request has exactly the even-adjusted
\* width and height of the source, (w // 2) * 2 by (h // 2) * 2, so all the
\* frames handed to the encoder share one size.
C2_FramesHaveSourceSize ==
    LET image == Get(data, "image", NoImage)
        size  == << (image.w \div 2) * 2, (image.h \div 2) * 2 >>
        AllSized(fs) == \A k \in 1..Len(fs) : fs[k].size = size
    IN  /\ AllSized(frames)
        /\ \A file \in Encoded : AllSized(file.frames)

C2_Witness ==
    /\ pc = "generating" /\ Len(frames) >= 2
    /\ Get(data, "image", NoImage).w = 3
    /\ loc.crop_w < shape[1]
    /\ loc.crop_w >= 1

\* C3 as stated: the number of frames generated and reported equals
\* round(duration * fps) of the clamped duration and fps.
C3_FrameCountRounds ==
    Succeeded =>
        /\ response.frames = RoundDiv(response.duration * response.fps, Den * Den)
        /\ Len(response.video.frames) = response.frames

\* C3 amended: the number of frames generated and reported equals
\* int(duration * fps), the product of the clamped duration and fps truncated
\* toward zero.
C3_FrameCountTruncates ==
    Succeeded =>
        /\ response.duration = duration /\ response.fps = fps
        /\ response.frames = (duration * fps) \div (Den * Den)
        /\ Len(response.video.frames) = response.frames

C3_Witness ==
    /\ Succeeded
    /\ (duration * fps) % (Den * Den) # 0
    /\ 2 * ((duration * fps) % (Den * Den)) >= Den * Den

\* C4: for total_frames >= 2, generate_frame at index 0 uses exactly the start
\* state (progress 0, scale = start_scale, cx = start_x, cy = start_y) and at
\* index total_frames - 1 exactly the end state (progress 1).
C4_EndpointsExact ==
    (Called /\ total_frames >= 2) =>
        /\ loc.frame_idx = 0 =>
              /\ loc.t[1] = 0
              /\ loc.scale = motion.start_scale * loc.t[2]
              /\ loc.cx = motion.start_x * loc.t[2]
              /\ loc.cy = motion.start_y * loc.t[2]
        /\ loc.frame_idx = total_frames - 1 =>
              /\ loc.t[1] = loc.t[2]
              /\ loc.scale = motion.end_scale * loc.t[2]
              /\ loc.cx = motion.end_x * loc.t[2]
              /\ loc.cy = motion.end_y * loc.t[2]

C4_Witness ==
    /\ Called /\ total_frames >= 2
    /\ loc.frame_idx = total_frames - 1
    /\ motion.start_scale # motion.end_scale
    /\ motion.start_x # motion.end_x
    /\ motion.start_y # motion.end_y

\* C5: when "mp4" is requested and the MP4 encoder dependency is missing at
\* encode time (ImportError), the frames are encoded as a GIF and the request
\* ends in a success response whose format is "gif", not in an error.
C5_FallbackSucceedsAsGif ==
    [][ /\ (/\ pc = "encoding"
            /\ Get(data, "format", "gif") = "mp4"
            /\ EncodeVideo("ImportError"))
           => /\ pc' = "reading"
              /\ output_format' = "gif"
              /\ disk'[output_path'].container = "gif"
        /\ (pc = "reading" /\ Get(data, "format", "gif") = "mp4"
                /\ disk[output_path].encoder = "PIL")
           => /\ response'.status = 200
              /\ response'.format = "gif"
              /\ response'.video = disk[output_path] ]_vars

C5_Witness ==
    /\ Succeeded
    /\ Get(data, "format", "gif") = "mp4"
    /\ response.format = "gif"
    /\ response.video.encoder = "PIL"
    /\ response.video.container = "gif"

\* C6: in every successful response the format field names the container that
\* was actually encoded, for every requested format and on the fallback path.
C6_FormatNamesContainer ==
    Succeeded => response.format = response.video.container

\* C7: once the response has been produced, no temporary file created by the
\* request remains on disk, on success, fallback and failure paths alike.
C7_NoTempFileRemains ==
    pc = "done" => DOMAIN disk = {}

\* C8: preset lookup never fails: without a custom motion, a name outside the
\* catalog selects the zoom_in MotionSpec, a name inside selects that preset,
\* and the request proceeds to (and through) frame generation.
C8_PresetLookupTotal ==
    LET image == Get(data, "image", NoImage)
        name  == Get(data, "preset", "zoom_in")
    IN  (Parsed /\ DOMAIN Get(data, "motion", EmptyDict) = {}) =>
            /\ motion = IF name \in DOMAIN PresetTable
                        THEN PresetTable[name]
                        ELSE PresetTable["zoom_in"]
            /\ (image.kind = "img" /\ image.w >= 2 /\ image.h >= 2)
                  => (pc = "generating" \/ nextTmp > 0)

C8_Witness ==
    /\ pc = "generating" /\ Len(frames) >= 1
    /\ Get(data, "preset", "zoom_in") \notin DOMAIN PresetTable
    /\ DOMAIN Get(data, "motion", EmptyDict) = {}
    /\ motion = PresetTable["zoom_in"]

\* C9: for a request carrying numeric duration and fps, the duration used
\* and reported lies in [1,10] and the fps in [12,60]; out-of-range values
\* are clamped to the nearest bound, in-range values are used unchanged.
C9_ClampedRanges ==
    (Parsed /\ {"duration", "fps"} \subseteq DOMAIN data) =>
        /\ duration \in (MinDuration * Den)..(MaxDuration * Den)
        /\ fps \in (MinFps * Den)..(MaxFps * Den)
        /\ duration = IF data.duration < MinDuration * Den THEN MinDuration * Den
                      ELSE IF data.duration > MaxDuration * Den THEN MaxDuration * Den
                      ELSE data.duration
        /\ fps = IF data.fps < MinFps * Den THEN MinFps * Den
                 ELSE IF data.fps > MaxFps * Den THEN MaxFps * Den
                 ELSE data.fps
        /\ Succeeded => (response.duration = duration /\ response.fps = fps)

C9_Witness ==
    /\ Succeeded
    /\ {"duration", "fps"} \subseteq DOMAIN data
    /\ data.duration > MaxDuration * Den
    /\ data.fps < MinFps * Den

\* C10 as stated: the GIF frame delay passed to the encoder equals
\* round(1000 / fps) ms and the loop count is 0, direct and fallback.
C10_DelayRounds ==
    \A file \in Encoded :
        file.encoder = "PIL" =>
            (file.duration = RoundDiv(1000 * Den, fps) /\ file.loop = 0)

\* C10 amended: the GIF frame delay passed to the encoder equals
\* int(1000 / fps) ms, the quotient truncated toward zero, and the loop count
\* is 0, both when GIF is requested directly and on the fallback.
C10_DelayTruncates ==
    \A file \in Encoded :
        file.encoder = "PIL" =>
            (file.duration = (1000 * Den) \div fps /\ file.loop = 0)

C10_Witness ==
    /\ Succeeded
    /\ response.video.encoder = "PIL"
    /\ Get(data, "format", "gif") = "mp4"
    /\ 2 * ((1000 * Den) % fps) > fps

\* C11: ease_in_out(t) = t^2 * (3 - 2t) maps [0,1] into [0,1], with
\* ease(0) = 0, ease(1) = 1, ease(0.5) = 0.5, and is non-decreasing on the
\* sampled points: t1 <= t2 implies ease(t1) <= ease(t2).
C11_EaseProperties ==
    ret # <<>> =>
        LET n1 == call[1]
            n2 == call[2]
            d  == call[3]
            e1 == ret[1]
            e2 == ret[2]
        IN  /\ e1[2] > 0 /\ e2[2] = e1[2]
            /\ 0 <= e1[1] /\ e1[1] <= e1[2]
            /\ n1 = 0 => e1[1] = 0
            /\ n1 = d => e1[1] = e1[2]
            /\ 2 * n1 = d => 2 * e1[1] = e1[2]
            /\ n1 <= n2 => e1[1] <= e2[1]

C11_Witness ==
    /\ ret # <<>>
    /\ 2 * call[1] = call[3]
    /\ call[1] < call[2]
    /\ call[3] = SamplePoints

\* C12: whenever a request fails (missing image, undecodable image,
\* malformed motion fields, frame-generation error, encoder error) the answer
\* is an error response with no video, format or frames data, and a missing
\* image is rejected before any frame is generated or temp file created.
C12_FailureCarriesNoOutput ==
    LET image == Get(data, "image", NoImage)
        m     == Get(data, "motion", EmptyDict)
    IN  pc = "done" =>
            /\ response.status \in {200, 400, 500}
            /\ response.status # 200 => DOMAIN response = {"status", "error"}
            /\ image.kind = "empty" =>
                  /\ response.status = 400
                  /\ frames = <<>> /\ loc = NoLocals
                  /\ output_path = NoPath /\ disk = EmptyDict
            /\ image.kind = "bad" => response.status = 500
            /\ (image.kind # "empty" /\ \E k \in DOMAIN m : m[k] = NonNumber)
                  => response.status = 500

C12_Witness ==
    /\ pc = "done"
    /\ response.status = 500
    /\ output_path # NoPath
    /\ Len(frames) = total_frames
    /\ total_frames > 0

\* C13: every MotionSpec that reaches generate_frame has start_scale >= 1.0
\* and end_scale >= 1.0, a custom motion object included.
C13_ScalesAtLeastOne ==
    Called => (motion.start_scale >= Unit /\ motion.end_scale >= Unit)

\* C14 as stated: a 512x512 source, preset zoom_in, duration 2 and fps 10
\* give exactly 20 frames, frame 0 cropping the full image and frame 19 a
\* centered window of about 394x394.
C14_TwentyFrames ==
    data = ZoomScenario =>
        /\ pc # "idle" => total_frames = 20
        /\ Succeeded => response.frames = 20
        /\ (Called /\ loc.frame_idx = 0) => (loc.crop_w = 512 /\ loc.crop_h = 512)
        /\ (Called /\ loc.frame_idx = 19) =>
              (loc.crop_w \in 393..394 /\ loc.crop_h \in 393..394)

\* C14 amended: fps 10 is clamped to 12, so the request gives exactly 24
\* frames; frame 0 crops the full 512x512 image and frame 23 the 393x393
\* window at (59, 59), centered to within a pixel.
C14_TwentyFourFrames ==
    data = ZoomScenario =>
        /\ pc # "idle" => (total_frames = 24 /\ shape = <<512, 512>>)
        /\ Succeeded =>
              /\ response.frames = 24
              /\ Len(response.video.frames) = 24
              /\ response.video.frames[1].crop = <<0, 0, 512, 512>>
              /\ response.video.frames[24].crop = <<59, 59, 452, 452>>
        /\ (Called /\ loc.frame_idx = 0) =>
              (loc.crop_w = 512 /\ loc.crop_h = 512 /\ loc.x1 = 0 /\ loc.y1 = 0)
        /\ (Called /\ loc.frame_idx = 23) =>
              (loc.crop_w = 393 /\ loc.crop_h = 393 /\ loc.x1 = 59 /\ loc.y1 = 59)

C14_Witness ==
    /\ data = ZoomScenario
    /\ Succeeded
    /\ loc.frame_idx = 23

\* C15 as stated: the custom pan with duration 1 and fps 1 gives exactly 1
\* frame, evaluated at t = 0, with its crop window centered at x = 0.2.
C15_SingleFrame ==
    data = PanScenario =>
        /\ pc # "idle" => total_frames = 1
        /\ Succeeded => response.frames = 1
        /\ (Called /\ loc.frame_idx = 0) =>
              /\ loc.t[1] = 0
              /\ 10 * (loc.x1 + loc.x2) \in (4 * shape[1] - 20)..(4 * shape[1] + 20)

\* C15 amended: fps 1 is clamped to 12, so the request gives exactly 12
\* frames; frame 0 is evaluated at t = 0 with the start state (cx = 0.2) and
\* nothing divides by zero; the scale being 1.0, the crop window of every
\* frame is the whole image.
C15_TwelveFrames ==
    data = PanScenario =>
        /\ pc # "idle" => total_frames = 12
        /\ pc = "done" => response.status = 200
        /\ Succeeded =>
              (response.frames = 12 /\ Len(response.video.frames) = 12)
        /\ (Called /\ loc.frame_idx = 0) =>
              /\ loc.t[1] = 0
              /\ loc.scale = 100 * loc.t[2]
              /\ loc.cx = 20 * loc.t[2]
              /\ loc.cy = 50 * loc.t[2]
        /\ Called =>
              /\ loc.x1 = 0 /\ loc.x2 = shape[1]
              /\ loc.y1 = 0 /\ loc.y2 = shape[2]

C15_Witness ==
    /\ data = PanScenario
    /\ pc = "generating"
    /\ Len(frames) = 1
    /\ loc.frame_idx = 0
    /\ loc.size = <<512, 512>>

\* the phases of a request, in order
Rank(p) ==
    CASE p = "idle" -> 0
      [] p = "generating" -> 1
      [] p = "encoding" -> 2
      [] p = "reading" -> 3
      [] p = "done" -> 4

\* C16: a request passes through its phases only in the order Idle,
\* FramesGenerating, Encoding, Done: encoding starts only when all
\* total_frames frames exist, the success response is produced only after
\* the encoding has finished, and no phase is entered twice.
C16_PhaseOrder ==
    [][ /\ Rank(pc') >= Rank(pc)
        /\ (pc' = "generating" /\ pc # "generating") => pc = "idle"
        /\ (pc' = "encoding" /\ pc # "encoding") =>
              (pc = "generating" /\ Len(frames) = total_frames)
        /\ (pc' = "reading" /\ pc # "reading") =>
              (pc = "encoding" /\ disk'[output_path'].encoder # "none")
        /\ (response'.status = 200 /\ response.status # 200) =>
              (pc = "reading" /\ pc' = "done")
        /\ pc = "done" => (pc' = "done" /\ response' = response) ]_vars

C16_Witness ==
    /\ Succeeded
    /\ Len(response.video.frames) = total_frames
    /\ total_frames >= MinFps

\* C17: on the GIF, the MP4 and the fallback path the k-th frame written to
\* the encoder is the frame generated for index k, none skipped, duplicated
\* or reordered, and encoding leaves the frame list as it was.
C17_FramesWrittenInOrder ==
    /\ \A k \in 1..Len(frames) : frames[k].idx = k - 1
    /\ \A file \in Encoded :
          file.encoder # "none" =>
              /\ Len(file.frames) = total_frames
              /\ \A k \in 1..Len(file.frames) : file.frames[k].idx = k - 1
    /\ pc = "reading" =>
          (Len(frames) = total_frames /\ disk[output_path].frames = frames)

C17_Witness ==
    /\ pc = "reading"
    /\ disk[output_path].encoder = "PIL"
    /\ Get(data, "format", "gif") = "mp4"
    /\ Len(frames) >= 2

\* C20 as stated: whenever the MP4 encoding step fails, for any reason, the
\* request ends with a successful GIF response rather than an error.
C20_AnyFailureFallsBack ==
    (pc = "done" /\ Get(data, "format", "gif") = "mp4" /\ output_path # NoPath)
        => response.status = 200

\* C20 amended: when the MP4 encoding step fails with an ImportError the
\* request takes the fallback and ends with a successful GIF response; a
\* writer error of any other kind ends it with an error response.
C20_OnlyImportErrorFallsBack ==
    (pc = "done" /\ Get(data, "format", "gif") = "mp4" /\ output_path # NoPath)
        => \/ /\ response.status = 200
              /\ response.video.encoder = "imageio"
              /\ response.format = "mp4"
           \/ /\ response.status = 200
              /\ response.video.encoder = "PIL"
              /\ response.video.container = "gif"
              /\ response.format = "gif"
              /\ output_path.ext = "gif"
           \/ /\ response.status = 500
              /\ response.error = "could not write video"
              /\ output_path.ext = "mp4"

C20_Witness ==
    /\ pc = "done"
    /\ Get(data, "format", "gif") = "mp4"
    /\ output_path # NoPath
    /\ response.status = 500

\* C18: after any sequence of requests the catalog MOTION_PRESETS equals its
\* initial value, frame generation and encoding leave the source image size
\* and the MotionSpec as the request set them, and a new request starts from
\* no state of an earlier one.
C18_CatalogAndInputsUnchanged ==
    LET image == Get(data, "image", NoImage)
    IN  /\ MOTION_PRESETS = PresetTable
        /\ pc \in {"generating", "encoding", "reading"} =>
              /\ motion = SelectMotion(data, PresetTable)
              /\ shape = << EvenSide(image.w), EvenSide(image.h) >>
        /\ pc = "idle" => Locals = IdleLocals

C18_Witness ==
    /\ pc = "generating"
    /\ Len(frames) >= 1
    /\ nextTmp >= 1
    /\ Get(data, "preset", "zoom_in") = "bogus"
    /\ DOMAIN Get(data, "motion", EmptyDict) = {}

\* the frames a request produces when it runs alone
AloneFrames(d) ==
    LET image == Get(d, "image", NoImage)
        w     == EvenSide(image.w)
        h     == EvenSide(image.h)
        n     == FrameCount(Clamp(Get(d, "duration", DefaultDuration * Den),
                                  MinDuration, MaxDuration),
                            Clamp(Get(d, "fps", DefaultFps * Den), MinFps, MaxFps))
        m     == SelectMotion(d, PresetTable)
    IN  [k \in 1..n |->
            LET l == generate_frame(w, h, k - 1, n, m)
            IN  [idx |-> k - 1, size |-> l.size,
                 crop |-> <<l.x1, l.y1, l.x2, l.y2>>]]

\* the responses a request with a preset motion can get when it runs alone
AloneResponses(d) ==
    LET image == Get(d, "image", NoImage)
        fmt   == Get(d, "format", "gif")
        dur   == Clamp(Get(d, "duration", DefaultDuration * Den),
                       MinDuration, MaxDuration)
        f     == Clamp(Get(d, "fps", DefaultFps * Den), MinFps, MaxFps)
        name  == Get(d, "preset", "zoom_in")
        fs    == AloneFrames(d)
        gif(opt) == [encoder |-> "PIL", container |-> "gif", frames |-> fs,
                     duration |-> (1000 * Den) \div f, loop |-> 0,
                     optimize |-> opt, fps |-> 0]
        mp4   == [encoder |-> "imageio", container |-> "mp4", frames |-> fs,
                  duration |-> 0, loop |-> 0, optimize |-> FALSE, fps |-> f]
    IN  IF image.kind = "empty"
        THEN { [status |-> 400, error |-> "No image provided"] }
        ELSE IF image.kind = "bad"
        THEN { [status |-> 500, error |-> "cannot identify image file"] }
        ELSE IF fmt = "gif"
        THEN { SuccessResponse(gif(TRUE), "gif", dur, f, Len(fs), name) }
        ELSE { SuccessResponse(mp4, "mp4", dur, f, Len(fs), name),
               SuccessResponse(gif(FALSE), "gif", dur, f, Len(fs), name),
               [status |-> 500, error |-> "could not write video"] }

\* C19: under any interleaving of two concurrent /generate requests each
\* response is one the request gets when it runs alone, the two requests use
\* distinct temp file paths, and neither removes or overwrites the other's
\* output.
C19_ThreadsDoNotInterfere ==
    LET threads == {Locals, other}
        Exporting(l) == l.pc \in {"encoding", "reading"}
    IN  /\ MOTION_PRESETS = PresetTable
        /\ \A l \in threads :
              /\ l.pc = "done" => l.response \in AloneResponses(l.data)
              /\ Exporting(l) => l.output_path \in DOMAIN disk
              /\ l.pc = "reading" => disk[l.output_path].frames = l.frames
        /\ (Exporting(Locals) /\ Exporting(other)) =>
              output_path.id # other.output_path.id

C19_Witness ==
    /\ pc = "done" /\ other.pc = "done"
    /\ response.status = 200 /\ other.response.status = 200
    /\ response.video.encoder = "PIL" /\ other.response.video.encoder = "PIL"
    /\ Get(data, "format", "gif") # Get(other.data, "format", "gif")
    /\ output_path.id # other.output_path.id

\* C21: the GIF written by the MP4-to-GIF fallback is encoded with the same
\* parameters as a GIF requested directly: the same frame delay, an infinite
\* loop and palette optimization enabled.
C21_FallbackSameSettings ==
    \A file \in Encoded :
        (file.encoder = "PIL" /\ file.container = "gif") =>
            /\ file.duration = GifDelay(fps)
            /\ file.loop = 0
            /\ file.optimize = TRUE

\* the scale of a generate_frame result is at least 1.0
ScaleAtLeastOne(l) == l.scale >= Unit * l.t[2]

\* the focal point of a generate_frame result lies in [0, 1]
FocalInUnitSquare(l) ==
    /\ 0 <= l.cx /\ l.cx <= Unit * l.t[2]
    /\ 0 <= l.cy /\ l.cy <= Unit * l.t[2]

\* the crop origin before the clamp of lines 66-67
RawOrigin(c, l) ==
    << UnclampedOrigin(c.w, l.crop_w, l.cx, Unit * l.t[2]),
       UnclampedOrigin(c.h, l.crop_h, l.cy, Unit * l.t[2]) >>

\* C22: for every scale >= 1 with crop_w >= 1 and crop_h >= 1 and for
\* arbitrary cx, cy (below 0 and above 1 included) the clamped crop origin
\* satisfies 0 <= x1 <= width - crop_w and 0 <= y1 <= height - crop_h, so
\* x2 <= width and y2 <= height.
C22_ClampedOriginInside ==
    ret # <<>> =>
        LET l == ret[1]
        IN  (ScaleAtLeastOne(l) /\ l.crop_w >= 1 /\ l.crop_h >= 1) =>
                /\ 0 <= l.x1 /\ l.x1 <= call.w - l.crop_w
                /\ 0 <= l.y1 /\ l.y1 <= call.h - l.crop_h
                /\ l.x2 = l.x1 + l.crop_w /\ l.x2 <= call.w
                /\ l.y2 = l.y1 + l.crop_h /\ l.y2 <= call.h

C22_Witness ==
    /\ ret # <<>>
    /\ ScaleAtLeastOne(ret[1])
    /\ ret[1].crop_w >= 1 /\ ret[1].crop_h >= 1
    /\ ret[1].cx > Unit * ret[1].t[2]
    /\ RawOrigin(call, ret[1])[1] > call.w - ret[1].crop_w
    /\ ret[1].x2 = call.w

\* C23 as stated: some scale >= 1 and some focal point in [0, 1] exist for
\* which the clamp changes the crop origin.
C23_ClampCanMoveWindow ==
    ret # <<>> =>
        \E c \in FrameCalls :
            LET l == generate_frame(c.w, c.h, c.frame_idx, c.total_frames, c.motion)
            IN  /\ ScaleAtLeastOne(l)
                /\ FocalInUnitSquare(l)
                /\ << l.x1, l.y1 >> # RawOrigin(c, l)

\* C23 amended: for every scale >= 1 and every focal point in [0, 1] the
\* clamp leaves the crop origin as computed, x1 = int((width - crop_w) * cx)
\* and y1 = int((height - crop_h) * cy); the clamp changes the origin only
\* when the scale is below 1 or a focal coordinate lies outside [0, 1].
C23_ClampIsIdentityInRange ==
    ret # <<>> =>
        LET l == ret[1]
        IN  (ScaleAtLeastOne(l) /\ FocalInUnitSquare(l)) =>
                << l.x1, l.y1 >> = RawOrigin(call, l)

C23_Witness ==
    /\ ret # <<>>
    /\ ret[1].scale = 5 * Unit * ret[1].t[2]
    /\ ret[1].cx = Unit * ret[1].t[2]
    /\ ret[1].cy = 0
    /\ ret[1].crop_w >= 1
    /\ ret[1].x1 = call.w - ret[1].crop_w

\* v lies between a and b, whichever is larger
Between(v, a, b) == Min(a, b) <= v /\ v <= Max(a, b)

\* C24: for every total_frames N >= 1 and frame index 0 <= i < N the eased
\* progress t used by generate_frame lies in [0, 1], so the interpolated
\* scale, cx and cy each lie between their start and end values, inclusive.
C24_ProgressInUnitInterval ==
    ret # <<>> =>
        LET l == ret[1]
            m == call.motion
            d == l.t[2]
        IN  /\ d > 0
            /\ 0 <= l.t[1] /\ l.t[1] <= d
            /\ Between(l.scale, m.start_scale * d, m.end_scale * d)
            /\ Between(l.cx, m.start_x * d, m.end_x * d)
            /\ Between(l.cy, m.start_y * d, m.end_y * d)

C24_Witness ==
    /\ ret # <<>>
    /\ call.total_frames = MinFps + 1
    /\ call.frame_idx = MinFps
    /\ call.motion.start_scale > call.motion.end_scale
    /\ ret[1].scale = call.motion.end_scale * ret[1].t[2]

\* C25: a request that carries a motion object uses the MotionSpec built from
\* that object's fields, missing fields taking the defaults start_scale 1.0,
\* end_scale 1.3 and focal coordinates 0.5, and the preset is not consulted;
\* a request whose motion object is absent or empty uses the preset lookup.
C25_CustomMotionOverridesPreset ==
    LET custom == Get(data, "motion", EmptyDict)
        name   == Get(data, "preset", "zoom_in")
    IN  Parsed =>
            IF DOMAIN custom # {}
            THEN /\ DOMAIN motion = {"start_scale", "end_scale", "start_x",
                                     "end_x", "start_y", "end_y"}
                 /\ \A k \in DOMAIN motion :
                       motion[k] = IF k \in DOMAIN custom THEN custom[k]
                                   ELSE IF k = "start_scale" THEN 100
                                   ELSE IF k = "end_scale" THEN 130
                                   ELSE 50
            ELSE motion = IF name \in DOMAIN PresetTable
                          THEN PresetTable[name]
                          ELSE PresetTable["zoom_in"]

C25_Witness ==
    /\ Called
    /\ Get(data, "preset", "zoom_in") = "pan_left"
    /\ DOMAIN Get(data, "motion", EmptyDict) = {"end_scale"}
    /\ motion.start_scale = 100
    /\ motion.start_x = 50

\* bytes of the frame list: total_frames RGB frames of the evened size
FrameListBytes == total_frames * shape[1] * shape[2] * 3

\* ceilings an operator could configure: the frame-list bytes of the shortest
\* request on each square image
ConfigurableCeilings ==
    { MinDuration * MinFps * (2 * k) * (2 * k) * 3 : k \in 1..MaxSide }

\* C26: a request whose frame count times per-frame byte size exceeds the
\* configured ceiling is rejected before frames are generated, so the frame
\* list of an accepted request never holds more than the ceiling.
C26_FrameMemoryBounded ==
    \A ceiling \in ConfigurableCeilings :
        FrameListBytes > ceiling => (frames = <<>> /\ ~Called)

\* the twelve names of the catalog
CatalogNames ==
    {"zoom_in", "zoom_out", "pan_left", "pan_right", "pan_up", "pan_down",
     "zoom_pan_tl", "zoom_pan_tr", "zoom_pan_bl", "zoom_pan_br",
     "dramatic_zoom", "slow_drift"}

\* C27: the catalog holds exactly the 12 presets, each with scales in
\* [1.0, 2.0] and focal coordinates in [0, 1]; so for every preset, every
\* even-adjusted image of at least 2x2 pixels and every frame index the crop
\* window is non-empty and inside the image.
C27_PresetsCropInsideNonEmpty ==
    /\ DOMAIN MOTION_PRESETS = CatalogNames
    /\ Cardinality(DOMAIN MOTION_PRESETS) = 12
    /\ \A name \in DOMAIN MOTION_PRESETS :
          LET m == MOTION_PRESETS[name]
          IN  /\ m.start_scale \in Unit..(2 * Unit)
              /\ m.end_scale \in Unit..(2 * Unit)
              /\ \A k \in {"start_x", "end_x", "start_y", "end_y"} :
                    m[k] \in 0..Unit
    /\ (/\ ret # <<>>
        /\ \E name \in DOMAIN MOTION_PRESETS : call.motion = MOTION_PRESETS[name]
        /\ call.w >= 2 /\ call.h >= 2) =>
          LET l == ret[1]
          IN  /\ l.crop_w >= 1 /\ l.crop_h >= 1
              /\ 0 <= l.x1 /\ l.x1 < l.x2 /\ l.x2 <= call.w
              /\ 0 <= l.y1 /\ l.y1 < l.y2 /\ l.y2 <= call.h
              /\ l.cropped = << l.crop_w, l.crop_h >>

C27_Witness ==
    /\ ret # <<>>
    /\ call.motion = MOTION_PRESETS["dramatic_zoom"]
    /\ call.w = 2 /\ call.h = 2
    /\ call.frame_idx = call.total_frames - 1
    /\ call.total_frames >= MinFps
    /\ ret[1].crop_w = 1 /\ ret[1].crop_h = 1

\* raw duration and fps values a request can carry, in 1/Den units, from far
\* below to far above the clamped ranges
RawTimings == {-5 * Den, 0, 1, MinDuration * Den, MinFps * Den - 1,
               MinFps * Den, MaxDuration * Den, MaxDuration * Den + 1,
               MaxFps * Den, MaxFps * Den + 1, 1000 * Den}

\* C28: for every request with numeric duration and fps that reaches frame
\* generation total_frames lies in [12, 600]; so the frame list is never
\* empty when encoding starts and generate_frame is never called with
\* total_frames = 1 by the endpoint.
C28_FrameCountRange ==
    /\ \A d \in RawTimings, f \in RawTimings :
          FrameCount(Clamp(d, MinDuration, MaxDuration),
                     Clamp(f, MinFps, MaxFps))
              \in (MinDuration * MinFps)..(MaxDuration * MaxFps)
    /\ pc \in {"generating", "encoding", "reading"} =>
          /\ total_frames \in (MinDuration * MinFps)..(MaxDuration * MaxFps)
          /\ total_frames = FrameCount(duration, fps)
    /\ pc \in {"encoding", "reading"} => Len(frames) >= 1
    /\ Called => (total_frames # 1 /\ Max(total_frames - 1, 1) = total_frames - 1)

C28_Witness ==
    /\ pc = "encoding"
    /\ Get(data, "duration", DefaultDuration * Den) = 0
    /\ Get(data, "fps", DefaultFps * Den) = MinFps * Den - 1
    /\ total_frames = MinFps
    /\ Len(frames) = MinFps

\* C29: the preset field of every successful response equals the preset value
\* of the request (default "zoom_in"), whatever motion was applied: an
\* unknown name and a name overridden by a custom motion are echoed too.
C29_PresetEchoed ==
    Succeeded => response.preset = Get(data, "preset", "zoom_in")

C29_Witness ==
    /\ Succeeded
    /\ response.preset = "bogus"
    /\ motion = PresetTable["zoom_in"]

\* the crop window of a generate_frame result
Window(l) == << l.x1, l.y1, l.x2, l.y2 >>

\* the crop window of the frame at the mirrored index under motion m
Mirrored(c, m) ==
    Window(generate_frame(c.w, c.h, c.total_frames - 1 - c.frame_idx,
                          c.total_frames, m))

\* C30: reversed presets are time reversals of each other: for every image
\* size, every N >= 2 and every frame index i, frame i under zoom_out has the
\* crop window of frame N-1-i under zoom_in, and likewise pan_left against
\* pan_right and pan_up against pan_down.
C30_ReversedPresetsMirror ==
    (ret # <<>> /\ call.total_frames >= 2) =>
        /\ call.motion = PresetTable["zoom_out"] =>
              Window(ret[1]) = Mirrored(call, PresetTable["zoom_in"])
        /\ call.motion = PresetTable["pan_left"] =>
              Window(ret[1]) = Mirrored(call, PresetTable["pan_right"])
        /\ call.motion = PresetTable["pan_up"] =>
              Window(ret[1]) = Mirrored(call, PresetTable["pan_down"])

C30_Witness ==
    /\ ret # <<>>
    /\ call.motion = PresetTable["zoom_out"]
    /\ call.total_frames = MinFps + 1
    /\ call.frame_idx = 3
    /\ call.w = 2 * MaxSide
    /\ ret[1].crop_w < call.w

====
